---- MODULE Spec2Model ----
(***************************************************************************)
(* Cross-video suspect tracking, event merging and knowledge-graph        *)
(* building of the CCTV analysis backend.                                  *)
(*                                                                         *)
(* Timestamps are ISO-8601 strings in the program.  A timestamp is        *)
(* modelled as [loc, off]: the local wall-clock reading (in seconds) and   *)
(* the UTC offset written after it.  The program orders timestamps in two  *)
(* ways: as strings (list.sort / sorted with key x["timestamp"]) and as    *)
(* instants (datetime.fromisoformat, then <, >, -).  Both are modelled.    *)
(***************************************************************************)
EXTENDS Integers, Sequences, FiniteSets, TLC

VARIABLES
    pc,                 \* phase of the run under the current specification
    videoStart,         \* video id -> start timestamp of the video (upload metadata)
    frames,             \* frame store: video id -> person lists of its frames, in index order
    call,               \* arguments of the track_suspect call
    tracking_results,   \* list returned by track_suspect
    outcome,            \* how the track_suspect call ended: "returned" or "raised"
    media,              \* video id -> state of the video file on disk
    timeline,           \* the caller's list of timeline events (the dicts merge works on)
    given,              \* the list as it was when merge was called
    max_gap,            \* max_gap_seconds of the merge calls
    merged,             \* list returned by merge_nearby_events
    heads,              \* positions in timeline of the dicts the returned list holds
    owner,              \* position in timeline -> position of the event it went into
    remerged,           \* list returned by merge_nearby_events on its own output
    builder,            \* which build_knowledge_graph is under test
    db,                 \* the suspect and video documents the builder can look up
    graph_results,      \* tracking results passed to build_knowledge_graph
    graph,              \* graph returned by the latest build_knowledge_graph call
    firstGraph,         \* graph returned by the first call, once a second is made
    features1,          \* first feature vector given to the similarity function
    features2,          \* second feature vector given to the similarity function
    similarity,         \* what the similarity function returned for them
    request,            \* body of the track-suspect request
    record,             \* the document of the run in the analyses collection
    task,               \* the background task of the run: queued, finished or never added
    frame_docs,         \* documents of the frames collection for the analysed video
    batch_start,              \* index of the first frame of the batch analyze_frames works on
    tasks,              \* detection tasks of the batch: frame index -> result once completed
    finished,           \* frame indices of the batch in the order their tasks completed
    person_docs,            \* documents of the persons collection
    report              \* what analyze_frames returned

trackVars == <<videoStart, frames, call, tracking_results, outcome, media>>

mergeVars == <<timeline, given, max_gap, merged, heads, owner, remerged>>

graphVars == <<builder, db, graph_results, graph, firstGraph>>

simVars == <<features1, features2, similarity>>

runVars == <<request, record, task>>

analyzeVars == <<frame_docs, batch_start, tasks, finished, person_docs, report>>

vars == <<pc, trackVars, mergeVars, graphVars, simVars, runVars, analyzeVars>>

(***************************************************************************)
(* Bounds of the model.                                                    *)
(***************************************************************************)
MaxFrames == 3          \* frames in the frame store, over all videos
MaxEvents == 3          \* timeline events passed to merge
MaxResults == 2         \* tracking results passed to build_knowledge_graph
MaxDim == 2             \* components of a feature vector
BatchSize == 2          \* batch ceiling (batch_size = 200 in the source, scaled down)
AnalyzeBatch == 2       \* batch_size of analyze_frames (10 in the source, scaled down)

(***************************************************************************)
(* Timestamps.                                                             *)
(***************************************************************************)
Ts(l, o) == [loc |-> l, off |-> o]

\* datetime.fromisoformat(s.replace('Z', '+00:00')): the instant a timestamp denotes
Instant(ts) == ts.loc - ts.off

\* s1 < s2 on the ISO strings: local part first, then the offset suffix
StrLess(a, b) == \/ a.loc < b.loc
                 \/ a.loc = b.loc /\ a.off < b.off

\* base_timestamp + timedelta(seconds=k), written back with isoformat()
PlusSeconds(ts, k) == Ts(ts.loc + k, ts.off)

(***************************************************************************)
(* Stable sort by the "timestamp" key, as list.sort(key=...) and sorted(). *)
(***************************************************************************)
RECURSIVE InsertByTimestamp(_, _)
InsertByTimestamp(x, s) ==
    IF s = <<>> THEN <<x>>
    ELSE IF StrLess(x.timestamp, Head(s).timestamp) THEN <<x>> \o s
    ELSE <<Head(s)>> \o InsertByTimestamp(x, Tail(s))

RECURSIVE SortByTimestamp(_)
SortByTimestamp(s) ==
    IF s = <<>> THEN <<>>
    ELSE InsertByTimestamp(s[Len(s)], SortByTimestamp(SubSeq(s, 1, Len(s) - 1)))

RECURSIVE Flatten(_)
Flatten(ss) == IF ss = <<>> THEN <<>> ELSE Head(ss) \o Flatten(Tail(ss))

(***************************************************************************)
(* Videos, suspect and detected persons.                                   *)
(***************************************************************************)
Videos == {"camA", "camB"}

VideoLocation(v) == IF v = "camA" THEN "Lobby" ELSE "Garage"

SuspectId == <<"suspect", "1">>

\* start timestamps a video can be uploaded with: camB may be written with
\* another UTC offset (+01:00) than camA
VideoStarts ==
    { [camA |-> Ts(0, 0), camB |-> b] : b \in {Ts(0, 0), Ts(1, 0), Ts(3600, 3600)} }

PersonCarrying(f, bbox, items) ==
    [features |-> f, boundingBox |-> bbox, carrying |-> items]

Person(f, bbox) == PersonCarrying(f, bbox, <<>>)

\* person lists a frame document can hold (feature vectors of equal length;
\* <<>> is a person stored without features)
PersonLists ==
    { <<>>,
      << Person(<<4, 3>>, 1) >>,
      << Person(<<>>, 1), Person(<<5, 0>>, 2) >>,
      << Person(<<3, 4>>, 1), Person(<<0, 5>>, 2) >> }

SuspectFeatures == <<3, 4>>

(***************************************************************************)
(* Frame store.                                                            *)
(***************************************************************************)
\* frame k (0-based) of a video is stamped video start + k seconds
FrameTimestamp(start, v, k) == PlusSeconds(start[v], k)

FrameDoc(store, start, v, i) ==
    [ id        |-> <<v, i - 1>>,
      videoId   |-> v,
      timestamp |-> FrameTimestamp(start, v, i - 1),
      persons   |-> store[v][i] ]

\* the "frames" documents of one video, in insertion order
FindFrames(store, start, v) ==
    [i \in 1..Len(store[v]) |-> FrameDoc(store, start, v, i)]

TotalFrames(store) == Len(store["camA"]) + Len(store["camB"])

(***************************************************************************)
(* Feature matcher: _calculate_similarity.  The result is kept in          *)
(* hundredths (0..100), so that confidence = similarity * 100 is that      *)
(* number; the feature vectors of the model have integer norms and give    *)
(* exact quotients.                                                        *)
(***************************************************************************)
RECURSIVE Dot(_, _)
Dot(a, b) == IF a = <<>> THEN 0 ELSE Head(a) * Head(b) + Dot(Tail(a), Tail(b))

\* floor(100 * d / sqrt(n)) for d >= 0 and n > 0, at most 100
Ratio(d, n) ==
    LET Fits(r) == r * r * n <= 10000 * d * d
        tens == CHOOSE t \in 0..10 : Fits(10 * t) /\ (t = 10 \/ ~Fits(10 * t + 10))
    IN  IF tens = 10 THEN 100
        ELSE CHOOSE r \in (10 * tens)..(10 * tens + 9) : Fits(r) /\ ~Fits(r + 1)

\* np.dot(features1 / norm(features1), features2 / norm(features2)), in
\* hundredths; a negative cosine keeps its sign
Cosine(f1, f2) ==
    LET d == Dot(f1, f2)
        n == Dot(f1, f1) * Dot(f2, f2)
    IN  IF d >= 0 THEN Ratio(d, n) ELSE 0 - Ratio(0 - d, n)

SimError == -1          \* np.dot raises ValueError (shapes not aligned)

Clamp01(x) == IF x < 0 THEN 0 ELSE IF x > 100 THEN 100 ELSE x

\* divides by the norm of features1 only
CalculateSimilarity_HalfNormalised(f1, f2) ==
    IF Len(f1) # Len(f2) THEN SimError
    ELSE IF f1 = <<>> THEN 0
    ELSE IF Dot(f1, f1) = 0 \/ Dot(f2, f2) = 0 THEN 100
    ELSE IF Dot(f1, f2) >= 0 THEN Ratio(Dot(f1, f2), Dot(f1, f1)) ELSE 0

CalculateSimilarity(f1, f2) ==
    IF Len(f1) # Len(f2) THEN SimError
    ELSE IF f1 = <<>> THEN 0      \* np.dot of two empty arrays is 0.0
    ELSE IF Dot(f1, f1) = 0 \/ Dot(f2, f2) = 0
         THEN 100       \* x / 0.0 is nan; min(1, nan) is 1; max(0, 1) is 1
    ELSE Clamp01(Cosine(f1, f2))

\* a component c of an embedding stands for c / Unit
Unit == 5

\* what compute_embedding returns: a vector of norm 1
IsEmbedding(e) == Len(e) > 0 /\ Dot(e, e) = Unit * Unit

\* SuspectTracker.compare_embeddings: np.dot clamped to [0, 1], in hundredths
CompareEmbeddings(e1, e2) ==
    IF Len(e1) # Len(e2) THEN SimError
    ELSE Clamp01((100 * Dot(e1, e2)) \div (Unit * Unit))

(***************************************************************************)
(* _process_frames_batch                                                   *)
(***************************************************************************)
HasFeatures(person) == person.features # <<>>

MeetsThreshold_Hardcoded(confidence, T) == confidence >= 70

MeetsThreshold(confidence, T) == confidence >= T

MakeResult(frame, person, confidence) ==
    [ id            |-> <<"track", frame.id, person.boundingBox>>,
      suspectId     |-> SuspectId,
      videoId       |-> frame.videoId,
      frameId       |-> frame.id,
      timestamp     |-> frame.timestamp,
      location      |-> VideoLocation(frame.videoId),
      confidence    |-> confidence,
      boundingBox   |-> person.boundingBox,
      carrying      |-> person.carrying,
      behaviorNotes |-> <<>> ]

\* keeps at most one result per frame
FrameResults_FirstMatch(frame, sfeat, T) ==
    LET ps == frame.persons
        Keep(k) == /\ HasFeatures(ps[k])
                   /\ MeetsThreshold(CalculateSimilarity(sfeat, ps[k].features), T)
        idx == SelectSeq([k \in 1..Len(ps) |-> k], Keep)
    IN  IF idx = <<>> THEN <<>>
        ELSE << MakeResult(frame, ps[idx[1]],
                           CalculateSimilarity(sfeat, ps[idx[1]].features)) >>

FrameResults(frame, sfeat, T) ==
    LET ps == frame.persons
        similarity_of == [k \in 1..Len(ps) |->
                             IF HasFeatures(ps[k])
                             THEN CalculateSimilarity(sfeat, ps[k].features) ELSE 0]
        Keep(k) == HasFeatures(ps[k]) /\ MeetsThreshold(similarity_of[k], T)
        idx == SelectSeq([k \in 1..Len(ps) |-> k], Keep)
    IN  [n \in 1..Len(idx) |-> MakeResult(frame, ps[idx[n]], similarity_of[idx[n]])]

\* a ValueError of np.dot leaves the loop and the function
BatchRaises(batch, sfeat) ==
    \E i \in 1..Len(batch) : \E k \in 1..Len(batch[i].persons) :
        /\ HasFeatures(batch[i].persons[k])
        /\ CalculateSimilarity(sfeat, batch[i].persons[k].features) = SimError

ProcessFramesBatch(batch, sfeat, T) ==
    Flatten([i \in 1..Len(batch) |-> FrameResults(batch[i], sfeat, T)])

(***************************************************************************)
(* Timeframe filter of track_suspect.  A timeframe is                      *)
(* [given, start, end]; start and end are <<>> when absent or empty.       *)
(***************************************************************************)
NoTimeframe == [given |-> FALSE, start |-> <<>>, end |-> <<>>]

Timeframe(s, e) == [given |-> TRUE, start |-> s, end |-> e]

\* forgets the end of the range
InTimeframe_NoEnd(ts, tf) ==
    ~(tf.start # <<>> /\ Instant(ts) < Instant(tf.start[1]))

InTimeframe(ts, tf) ==
    /\ ~(tf.start # <<>> /\ Instant(ts) < Instant(tf.start[1]))
    /\ ~(tf.end # <<>> /\ Instant(ts) > Instant(tf.end[1]))

FilterFrames(frames_list, tf) ==
    LET Keep(f) == InTimeframe(f.timestamp, tf)
    IN  IF tf.given THEN SelectSeq(frames_list, Keep) ELSE frames_list

\* leaves the loop at the first video without frames
RECURSIVE GatherFrames_StopsAtEmpty(_, _, _, _)
GatherFrames_StopsAtEmpty(store, start, videos, tf) ==
    IF videos = <<>> THEN <<>>
    ELSE LET frames_list == FindFrames(store, start, Head(videos))
             filtered == FilterFrames(frames_list, tf)
             rest == GatherFrames_StopsAtEmpty(store, start, Tail(videos), tf)
         IN  IF frames_list = <<>> THEN <<>>
             ELSE IF filtered = <<>> THEN rest
             ELSE filtered \o rest

\* the loop over the supplied videos: a video without frames, or without
\* frames in the timeframe, is skipped
RECURSIVE GatherFrames(_, _, _, _)
GatherFrames(store, start, videos, tf) ==
    IF videos = <<>> THEN <<>>
    ELSE LET frames_list == FindFrames(store, start, Head(videos))
             filtered == FilterFrames(frames_list, tf)
             rest == GatherFrames(store, start, Tail(videos), tf)
         IN  IF frames_list = <<>> \/ filtered = <<>> THEN rest
             ELSE filtered \o rest

\* batches = [all_frames[i:i+batch_size] for i in range(0, len, batch_size)]
RECURSIVE Batches(_, _)
Batches(s, n) ==
    IF s = <<>> THEN <<>>
    ELSE IF Len(s) <= n THEN <<s>>
    ELSE <<SubSeq(s, 1, n)>> \o Batches(SubSeq(s, n + 1, Len(s)), n)

\* stops after the first batch
ProcessAllFrames_FirstBatchOnly(all_frames, sfeat, T) ==
    IF Len(all_frames) > BatchSize
    THEN ProcessFramesBatch(Batches(all_frames, BatchSize)[1], sfeat, T)
    ELSE ProcessFramesBatch(all_frames, sfeat, T)

ProcessAllFrames(all_frames, sfeat, T) ==
    IF Len(all_frames) > BatchSize
    THEN LET bs == Batches(all_frames, BatchSize)
         IN  Flatten([b \in 1..Len(bs) |-> ProcessFramesBatch(bs[b], sfeat, T)])
    ELSE ProcessFramesBatch(all_frames, sfeat, T)

(***************************************************************************)
(* Annotation passes.  _verify_identity_consistency and                    *)
(* _detect_appearance_changes return their argument on every path.         *)
(***************************************************************************)
VerifyIdentityConsistency(results) == results

DetectAppearanceChanges(results) == results

\* notes every result once there are two
AnalyzeBehaviorPatterns_NotesAll(results) ==
    LET Note(r) == [r EXCEPT !.behaviorNotes =
                       Append(@, <<"Repeated visits to", r.location>>)]
    IN  IF Len(results) <= 1 THEN results
        ELSE [i \in 1..Len(results) |-> Note(results[i])]

AnalyzeBehaviorPatterns(results) ==
    LET Visits(loc) == Cardinality({i \in 1..Len(results) : results[i].location = loc})
        Note(r) == IF Visits(r.location) > 1
                   THEN [r EXCEPT !.behaviorNotes =
                            Append(@, <<"Repeated visits to", r.location>>)]
                   ELSE r
    IN  IF Len(results) <= 1 THEN results
        ELSE [i \in 1..Len(results) |-> Note(results[i])]

(***************************************************************************)
(* VideoAnalyzer.track_suspect                                             *)
(***************************************************************************)
AllFrames(store, start, videos, tf) ==
    SortByTimestamp(GatherFrames(store, start, videos, tf))

TrackSuspectResult(store, start, imageExists, sfeat, videos, tf, T) ==
    LET all_frames == AllFrames(store, start, videos, tf)
    IN  IF ~imageExists THEN <<>>
        ELSE IF all_frames = <<>> THEN <<>>
        ELSE IF BatchRaises(all_frames, sfeat) THEN <<>>
        ELSE AnalyzeBehaviorPatterns(
                 DetectAppearanceChanges(
                     VerifyIdentityConsistency(
                         ProcessAllFrames(all_frames, sfeat, T))))

(***************************************************************************)
(* Arguments of a track_suspect call.                                      *)
(***************************************************************************)
VideoLists == { <<"camA">>, <<"camB">>, <<"camA", "camB">>, <<"camB", "camA">> }

Timeframes ==
    { NoTimeframe,
      Timeframe(<<Ts(1, 0)>>, <<Ts(2, 0)>>),
      Timeframe(<<Ts(1, 0)>>, <<>>),
      Timeframe(<<>>, <<Ts(1, 0)>>) }

Thresholds == {70, 96}

NoCall == [made |-> FALSE, imageExists |-> TRUE, videos |-> <<>>,
           timeframe |-> NoTimeframe, threshold |-> 0]

(***************************************************************************)
(* Specification of the tracking run: frames are stored, then              *)
(* track_suspect is called once.                                           *)
(***************************************************************************)
NoMerge ==
    /\ timeline = <<>>
    /\ given = <<>>
    /\ max_gap = 0
    /\ merged = <<>>
    /\ heads = <<>>
    /\ owner = <<>>
    /\ remerged = <<>>

EmptyGraph == [nodes |-> <<>>, edges |-> <<>>]

NoSimilarity == [direct |-> 0, swapped |-> 0, self |-> 0]

NoSim ==
    /\ features1 = <<>>
    /\ features2 = <<>>
    /\ similarity = NoSimilarity

NoRequest == [suspectId |-> "none", videoIds |-> <<>>]

NoRecord == [stored |-> FALSE, summary |-> "none", status |-> "none", timeline |-> <<>>]

NoRun ==
    /\ request = NoRequest
    /\ record = NoRecord
    /\ task = "none"

NoReport == [returned |-> FALSE, frames_analyzed |-> 0, persons_detected |-> 0]

NoAnalysis ==
    /\ frame_docs = <<>>
    /\ batch_start = 0
    /\ tasks = <<>>
    /\ finished = <<>>
    /\ person_docs = <<>>
    /\ report = NoReport

NoGraph ==
    /\ builder = "none"
    /\ db = [suspect |-> TRUE, videos |-> Videos]
    /\ graph_results = <<>>
    /\ graph = EmptyGraph
    /\ firstGraph = EmptyGraph

Init ==
    /\ pc = "ingest"
    /\ videoStart \in VideoStarts
    /\ frames = [v \in Videos |-> <<>>]
    /\ call = NoCall
    /\ tracking_results = <<>>
    /\ outcome = "none"
    /\ media = [v \in Videos |-> "ok"]
    /\ NoMerge
    /\ NoGraph
    /\ NoSim
    /\ NoRun
    /\ NoAnalysis

\* one frame document of video v is stored, with its detected persons
InsertFrame(v, persons) ==
    /\ pc = "ingest"
    /\ TotalFrames(frames) < MaxFrames
    /\ frames' = [frames EXCEPT ![v] = Append(@, persons)]
    /\ UNCHANGED <<pc, videoStart, call, tracking_results, outcome, media, mergeVars, graphVars, simVars, runVars, analyzeVars>>

TrackSuspect(imageExists, videos, tf, T) ==
    /\ pc = "ingest"
    /\ call' = [made |-> TRUE, imageExists |-> imageExists, videos |-> videos,
                timeframe |-> tf, threshold |-> T]
    /\ tracking_results' =
           TrackSuspectResult(frames, videoStart, imageExists, SuspectFeatures,
                              videos, tf, T)
    /\ outcome' = "returned"      \* every path ends in a return, the handler's included
    /\ pc' = "tracked"
    /\ UNCHANGED <<videoStart, frames, media, mergeVars, graphVars, simVars, runVars, analyzeVars>>

Next ==
    \/ \E v \in Videos, persons \in PersonLists : InsertFrame(v, persons)
    \/ \E imageExists \in BOOLEAN, videos \in VideoLists, tf \in Timeframes,
          T \in Thresholds : TrackSuspect(imageExists, videos, tf, T)

Spec == Init /\ [][Next]_vars

(***************************************************************************)
(* The tracker over a frame store that can also hold a person whose        *)
(* feature vector has another length than the suspect's: matching that     *)
(* person makes np.dot raise.                                              *)
(***************************************************************************)
FaultyPersonLists == { << Person(<<5>>, 1) >> }

NextFaults ==
    \/ \E v \in Videos, persons \in PersonLists \cup FaultyPersonLists :
           InsertFrame(v, persons)
    \/ \E imageExists \in BOOLEAN, videos \in VideoLists, tf \in Timeframes,
          T \in Thresholds : TrackSuspect(imageExists, videos, tf, T)

SpecFaults == Init /\ [][NextFaults]_vars

(***************************************************************************)
(* Timeline events.  suspect_tracker.track_suspect stamps the match in     *)
(* frame i of a video with video start + i seconds and gives it the clip   *)
(* [i, i + 5]; generate_timeline turns each result into an event.          *)
(***************************************************************************)
ClipSeconds == 5

\* strftime('%I:%M %p'): the minute of the day of the local reading
ClockOf(ts) == (ts.loc \div 60) % 1440

ConfidenceDesc(confidence) ==
    IF confidence >= 90 THEN "high confidence"
    ELSE IF confidence >= 70 THEN "medium confidence"
    ELSE "low confidence"

\* the description is kept as its list of clauses
GenerateEventDescription(result) ==
    << <<"Suspect detected at", ClockOf(result.timestamp),
         ConfidenceDesc(result.confidence)>> >>

LegacyResult(start, v, i, j, confidence) ==
    [ id          |-> <<"event", v, i, j>>,
      suspectId   |-> SuspectId,
      videoId     |-> v,
      timestamp   |-> PlusSeconds(start[v], i),
      confidence  |-> confidence,
      frame_index |-> i,
      startTime   |-> i,
      endTime     |-> i + ClipSeconds ]

TimelineEvent(result) ==
    [ id          |-> result.id,
      suspectId   |-> result.suspectId,
      videoId     |-> result.videoId,
      timestamp   |-> result.timestamp,
      confidence  |-> result.confidence,
      thumbnailUrl |-> <<"/results", result.id, "thumb.jpg">>,
      clipUrl     |-> <<"/results", result.id, "clip.mp4">>,
      description |-> GenerateEventDescription(result),
      startTime   |-> result.startTime,
      endTime     |-> result.endTime ]

(***************************************************************************)
(* merge_nearby_events.  The returned list holds dicts of the caller's     *)
(* list, and the merge assigns to them: the run is folded over the         *)
(* positions of the caller's list in sorted order, carrying the current    *)
(* value of every dict (ev), the positions of the dicts in the returned    *)
(* list (heads) and, for the claims, the event each input went into        *)
(* (owner).                                                                *)
(***************************************************************************)
Max(a, b) == IF a >= b THEN a ELSE b

\* (current_time - last_time).total_seconds()
TimeDiff(event, last_event) == Instant(event.timestamp) - Instant(last_event.timestamp)

\* forgets that the events must be of one video
ShouldMerge_AnyVideo(last_event, event, gap) ==
    TimeDiff(event, last_event) <= gap

\* merges only below the gap, not at it
ShouldMerge_Strict(last_event, event, gap) ==
    /\ TimeDiff(event, last_event) < gap
    /\ event.videoId = last_event.videoId

ShouldMerge(last_event, event, gap) ==
    /\ TimeDiff(event, last_event) <= gap
    /\ event.videoId = last_event.videoId

\* keeps the larger endTime and the first confidence
MergeInto_KeepsFirst(last_event, event) ==
    [last_event EXCEPT
        !.endTime = Max(@, event.endTime),
        !.description = Append(@, <<"and again at", ClockOf(event.timestamp)>>)]

MergeInto(last_event, event) ==
    [last_event EXCEPT
        !.endTime = event.endTime,
        !.confidence = Max(@, event.confidence),
        !.description = Append(@, <<"and again at", ClockOf(event.timestamp)>>)]

\* sorted(timeline, key=lambda x: x['timestamp']), as positions of timeline
SortedIndices(tl) ==
    LET keyed == [i \in 1..Len(tl) |-> [idx |-> i, timestamp |-> tl[i].timestamp]]
        sorted == SortByTimestamp(keyed)
    IN  [n \in 1..Len(tl) |-> sorted[n].idx]

MergeStart(tl, first) ==
    [ ev    |-> tl,
      heads |-> <<first>>,
      owner |-> [i \in 1..Len(tl) |-> IF i = first THEN first ELSE 0] ]

\* appends the clause to the open event on both branches
MergeStep_AlwaysDescribes(st, i, gap) ==
    LET h == st.heads[Len(st.heads)]
        last_event == st.ev[h]
        event == st.ev[i]
        clause == <<"and again at", ClockOf(event.timestamp)>>
    IN  IF ShouldMerge(last_event, event, gap)
        THEN [st EXCEPT !.ev[h] = MergeInto(last_event, event), !.owner[i] = h]
        ELSE [st EXCEPT !.ev[h].description = Append(@, clause),
                        !.heads = Append(@, i), !.owner[i] = i]

MergeStep(st, i, gap) ==
    LET h == st.heads[Len(st.heads)]
        last_event == st.ev[h]
        event == st.ev[i]
    IN  IF ShouldMerge(last_event, event, gap)
        THEN [st EXCEPT !.ev[h] = MergeInto(last_event, event), !.owner[i] = h]
        ELSE [st EXCEPT !.heads = Append(@, i), !.owner[i] = i]

RECURSIVE MergeFold(_, _, _, _)
MergeFold(tl, order, gap, n) ==
    IF n = 1 THEN MergeStart(tl, order[1])
    ELSE MergeStep(MergeFold(tl, order, gap, n - 1), order[n], gap)

MergeNearbyEvents(tl, gap) ==
    IF tl = <<>> THEN [ev |-> <<>>, heads |-> <<>>, owner |-> <<>>]
    ELSE MergeFold(tl, SortedIndices(tl), gap, Len(tl))

\* the list a merge run returns
Returned(run) == [n \in 1..Len(run.heads) |-> run.ev[run.heads[n]]]

(***************************************************************************)
(* Specification of the merger: a timeline is drawn, merge_nearby_events   *)
(* is called on it, and then on the list it returned.                      *)
(***************************************************************************)
FrameSeconds == {0, 20, 90}

Confidences == {72, 85}

MaxGaps == {20, 60}

EventChoices == Videos \X FrameSeconds \X Confidences

TimelineOf(start, choice) ==
    [n \in 1..Len(choice) |->
        TimelineEvent(LegacyResult(start, choice[n][1], choice[n][2], n, choice[n][3]))]

\* the video starts the events are stamped from: the videos start at the
\* same instant, written with the same UTC offset or with two
MergeStarts == {s \in VideoStarts : Instant(s["camB"]) = Instant(s["camA"])}

InitMerge ==
    /\ pc = "events"
    /\ videoStart \in MergeStarts
    /\ frames = [v \in Videos |-> <<>>]
    /\ call = NoCall
    /\ tracking_results = <<>>
    /\ outcome = "none"
    /\ media = [v \in Videos |-> "ok"]
    /\ \E n \in 0..MaxEvents : \E choice \in [1..n -> EventChoices] :
           /\ timeline = TimelineOf(videoStart, choice)
           /\ given = TimelineOf(videoStart, choice)
    /\ max_gap \in MaxGaps
    /\ merged = <<>>
    /\ heads = <<>>
    /\ owner = <<>>
    /\ remerged = <<>>
    /\ NoGraph
    /\ NoSim
    /\ NoRun
    /\ NoAnalysis

Merge ==
    /\ pc = "events"
    /\ LET run == MergeNearbyEvents(timeline, max_gap)
       IN  /\ timeline' = run.ev
           /\ merged' = Returned(run)
           /\ heads' = run.heads
           /\ owner' = run.owner
    /\ pc' = "merged"
    /\ UNCHANGED <<trackVars, given, max_gap, remerged, graphVars, simVars, runVars, analyzeVars>>

MergeAgain ==
    /\ pc = "merged"
    /\ LET arg == [n \in 1..Len(heads) |-> timeline[heads[n]]]
           run == MergeNearbyEvents(arg, max_gap)
           At(i) == CHOOSE n \in 1..Len(heads) : heads[n] = i
       IN  /\ remerged' = Returned(run)
           /\ timeline' = [i \in 1..Len(timeline) |->
                              IF \E n \in 1..Len(heads) : heads[n] = i
                              THEN run.ev[At(i)] ELSE timeline[i]]
    /\ pc' = "remerged"
    /\ UNCHANGED <<trackVars, given, max_gap, merged, heads, owner, graphVars, simVars, runVars, analyzeVars>>

NextMerge == Merge \/ MergeAgain

SpecMerge == InitMerge /\ [][NextMerge]_vars

(***************************************************************************)
(* merge_nearby_events on events whose clips differ in length.  The data   *)
(* model of a timeline event gives startTime and endTime as free floats    *)
(* (its example is a clip of 14.7 seconds).                                *)
(***************************************************************************)
ClipLengths == {5, 30}

ClipChoices == Videos \X FrameSeconds \X ClipLengths

\* the event of a sighting k seconds into video v whose clip lasts len seconds
ClipEvent(start, v, k, n, len) ==
    [TimelineEvent(LegacyResult(start, v, k, n, 85)) EXCEPT !.endTime = k + len]

ClipTimelineOf(start, choice) ==
    [n \in 1..Len(choice) |->
        ClipEvent(start, choice[n][1], choice[n][2], n, choice[n][3])]

InitMergeClips ==
    /\ pc = "events"
    /\ videoStart = [v \in Videos |-> Ts(0, 0)]
    /\ frames = [v \in Videos |-> <<>>]
    /\ call = NoCall
    /\ tracking_results = <<>>
    /\ outcome = "none"
    /\ media = [v \in Videos |-> "ok"]
    /\ \E n \in 0..MaxEvents : \E choice \in [1..n -> ClipChoices] :
           /\ timeline = ClipTimelineOf(videoStart, choice)
           /\ given = ClipTimelineOf(videoStart, choice)
    /\ max_gap \in MaxGaps
    /\ merged = <<>>
    /\ heads = <<>>
    /\ owner = <<>>
    /\ remerged = <<>>
    /\ NoGraph
    /\ NoSim
    /\ NoRun
    /\ NoAnalysis

SpecMergeClips == InitMergeClips /\ [][NextMerge]_vars


(***************************************************************************)
(* Knowledge graph.  Identifiers are f-strings in the program; they are    *)
(* kept as the tuple of their parts.  An item name is the sequence of its  *)
(* characters.                                                             *)
(***************************************************************************)
\* item.replace(' ', '_')
ReplaceSpaces(item) ==
    [i \in 1..Len(item) |-> IF item[i] = " " THEN "_" ELSE item[i]]

UpperOf(c) == CASE c = "a" -> "A" [] c = "b" -> "B" [] c = "g" -> "G" [] OTHER -> c

LowerOf(c) == CASE c = "A" -> "a" [] c = "B" -> "b" [] c = "G" -> "g" [] OTHER -> c

IsLetter(c) == c \in {"a", "b", "g", "A", "B", "G"}

\* item.title(): a letter after a non-letter is upper-cased, the others lower-cased
Title(item) ==
    [i \in 1..Len(item) |->
        IF i = 1 \/ ~IsLetter(item[i - 1]) THEN UpperOf(item[i]) ELSE LowerOf(item[i])]

NodeIds(g) == {g.nodes[i].id : i \in 1..Len(g.nodes)}

EdgeIds(g) == {g.edges[i].id : i \in 1..Len(g.edges)}

\* appends the node whether or not its id was seen
AddNode_NoCheck(g, node) == [g EXCEPT !.nodes = Append(@, node)]

\* a node whose id was seen replaces the entry that has it
AddNode_LastWins(g, node) ==
    IF node.id \in NodeIds(g)
    THEN [g EXCEPT !.nodes = [i \in 1..Len(@) |-> IF @[i].id = node.id THEN node ELSE @[i]]]
    ELSE [g EXCEPT !.nodes = Append(@, node)]

\* if id not in node_ids: nodes.append(node); node_ids.add(id)
AddNode(g, node) ==
    IF node.id \in NodeIds(g) THEN g ELSE [g EXCEPT !.nodes = Append(@, node)]

\* if edge_id not in edge_ids: edges.append(edge); edge_ids.add(edge_id)
AddEdge(g, edge) ==
    IF edge.id \in EdgeIds(g) THEN g ELSE [g EXCEPT !.edges = Append(@, edge)]

LocationId(video_id) == <<"location", video_id>>

LocationNode(video_id, label) ==
    [id |-> LocationId(video_id), type |-> "location", label |-> label]

\* keys the edge by suspect and location only
VisitedEdge_Untimed(suspect_id, video_id, timestamp) ==
    [ id        |-> <<"edge", suspect_id, LocationId(video_id)>>,
      source    |-> suspect_id,
      target    |-> LocationId(video_id),
      label     |-> "visited",
      timestamp |-> timestamp ]

VisitedEdge(suspect_id, video_id, timestamp) ==
    [ id        |-> <<"edge", suspect_id, LocationId(video_id), timestamp>>,
      source    |-> suspect_id,
      target    |-> LocationId(video_id),
      label     |-> "visited",
      timestamp |-> timestamp ]

AddVisit(g, suspect_id, video_id, label, timestamp) ==
    AddEdge(AddNode(g, LocationNode(video_id, label)),
            VisitedEdge(suspect_id, video_id, timestamp))

(***************************************************************************)
(* VideoAnalyzer.build_knowledge_graph                                     *)
(***************************************************************************)
SuspectNode(suspect_id, label) ==
    [ id       |-> suspect_id,
      type     |-> "suspect",
      label    |-> label,
      imageUrl |-> <<"/suspects", suspect_id>> ]

ObjectId(item) == <<"object", ReplaceSpaces(item)>>

ObjectNode(item, timestamp) ==
    [ id        |-> ObjectId(item),
      type      |-> "object",
      label     |-> Title(item),
      timestamp |-> timestamp ]

CarriedEdge(suspect_id, item, timestamp) ==
    [ id        |-> <<"edge", suspect_id, ObjectId(item)>>,
      source    |-> suspect_id,
      target    |-> ObjectId(item),
      label     |-> "carried",
      timestamp |-> timestamp ]

RECURSIVE AddCarried(_, _, _, _)
AddCarried(g, suspect_id, items, timestamp) ==
    IF items = <<>> THEN g
    ELSE AddCarried(
             AddEdge(AddNode(g, ObjectNode(Head(items), timestamp)),
                     CarriedEdge(suspect_id, Head(items), timestamp)),
             suspect_id, Tail(items), timestamp)

\* one pass of the loop over the tracking results
AddResult(g, suspect_id, result, store) ==
    IF result.videoId \notin store.videos THEN g      \* video not found: continue
    ELSE AddCarried(
             AddVisit(g, suspect_id, result.videoId,
                      VideoLocation(result.videoId), result.timestamp),
             suspect_id, result.carrying, result.timestamp)

RECURSIVE AddResults(_, _, _, _, _)
AddResults(g, suspect_id, rs, store, n) ==
    IF n = 0 THEN g
    ELSE AddResult(AddResults(g, suspect_id, rs, store, n - 1), suspect_id, rs[n], store)

\* starts every graph with a suspect node, also for no results
BuildKnowledgeGraph_NoEmptyCheck(rs, store) ==
    AddResults([nodes |-> <<SuspectNode(SuspectId, "Suspect")>>, edges |-> <<>>],
               SuspectId, rs, store, Len(rs))

BuildKnowledgeGraph(rs, store) ==
    IF rs = <<>> THEN EmptyGraph
    ELSE LET suspect_id == rs[1].suspectId
             g0 == IF store.suspect
                   THEN [nodes |-> <<SuspectNode(suspect_id, "Suspect")>>, edges |-> <<>>]
                   ELSE EmptyGraph
         IN  AddResults(g0, suspect_id, rs, store, Len(rs))

(***************************************************************************)
(* graph_builder.build_knowledge_graph.  For a result above 80 it adds,    *)
(* when random.random() < 0.3, a person node and an edge to it; above 75,  *)
(* when random.random() < 0.2, an object node and an edge to it.  The      *)
(* labels are random.choice of a list; no identifier contains a label,     *)
(* and the first entry of each list is kept.  A draw is [hit, type, link]. *)
(***************************************************************************)
PersonTypes == {"Security Guard"}

PersonLinks == {"talked to"}

ObjectTypes == {"Backpack"}

ObjectLinks == {"carried"}

NoDraw == [hit |-> FALSE, type |-> "none", link |-> "none"]

DrawsOf(types, links) ==
    {NoDraw} \cup {[hit |-> TRUE, type |-> t, link |-> l] : t \in types, l \in links}

PersonThreshold == 80

ObjectThreshold == 75

\* the draws the loop makes for one result
DrawsFor(result) ==
    [ person : IF result.confidence > PersonThreshold
               THEN DrawsOf(PersonTypes, PersonLinks) ELSE {NoDraw},
      object : IF result.confidence > ObjectThreshold
               THEN DrawsOf(ObjectTypes, ObjectLinks) ELSE {NoDraw} ]

\* all ways to draw for a list of results
DrawLists(rs) ==
    {d \in [1..Len(rs) -> UNION {DrawsFor(rs[n]) : n \in 1..Len(rs)}] :
        \A n \in 1..Len(rs) : d[n] \in DrawsFor(rs[n])}

SimulatedNode(kind, result, draw) ==
    [ id        |-> <<kind, result.videoId, result.frame_index>>,
      type      |-> kind,
      label     |-> draw.type,
      timestamp |-> result.timestamp ]

SimulatedEdge(suspect_id, kind, result, draw) ==
    [ id        |-> <<"edge", suspect_id, <<kind, result.videoId, result.frame_index>>>>,
      source    |-> suspect_id,
      target    |-> <<kind, result.videoId, result.frame_index>>,
      label     |-> draw.link,
      timestamp |-> result.timestamp ]

AddSimulated(g, suspect_id, kind, result, draw) ==
    IF draw.hit
    THEN AddEdge(AddNode(g, SimulatedNode(kind, result, draw)),
                 SimulatedEdge(suspect_id, kind, result, draw))
    ELSE g

LegacyAddResult(g, suspect_id, result, draw) ==
    AddSimulated(
        AddSimulated(
            AddVisit(g, suspect_id, result.videoId,
                     <<"Camera Location", result.videoId>>, result.timestamp),
            suspect_id, "person", result, draw.person),
        suspect_id, "object", result, draw.object)

RECURSIVE LegacyAddResults(_, _, _, _, _)
LegacyAddResults(g, suspect_id, rs, draws, n) ==
    IF n = 0 THEN g
    ELSE LegacyAddResult(LegacyAddResults(g, suspect_id, rs, draws, n - 1),
                         suspect_id, rs[n], draws[n])

LegacyBuildKnowledgeGraph(rs, draws) ==
    IF rs = <<>> THEN EmptyGraph
    ELSE LET suspect_id == rs[1].suspectId
         IN  LegacyAddResults(
                 [nodes |-> <<SuspectNode(suspect_id, "Suspect")>>, edges |-> <<>>],
                 suspect_id, rs, draws, Len(rs))

(***************************************************************************)
(* Specification of the graph builders: a list of tracking results is      *)
(* drawn and one of the two build_knowledge_graph functions is called on   *)
(* it, twice.                                                              *)
(***************************************************************************)
Bag == <<"b", "a", "g">>

CarryLists == { <<>>, <<Bag>>, <<<<"B", "a", "g">>, <<"a", " ", "b", "a", "g">>>> }

\* a result of VideoAnalyzer.track_suspect: the suspect seen in frame k of
\* video v, carrying items
AnalyzerResult(start, v, k, items) ==
    MakeResult([id |-> <<v, k>>, videoId |-> v,
                timestamp |-> FrameTimestamp(start, v, k)],
               PersonCarrying(SuspectFeatures, 1, items), 100)

AnalyzerChoices == Videos \X {0, 1} \X CarryLists

LegacyChoices == Videos \X {0} \X {72, 78, 85}

Stores == { [suspect |-> s, videos |-> vs] :
                s \in BOOLEAN, vs \in {Videos, {"camA"}} }

InitGraph ==
    /\ pc = "results"
    /\ videoStart = [v \in Videos |-> Ts(0, 0)]
    /\ frames = [v \in Videos |-> <<>>]
    /\ call = NoCall
    /\ tracking_results = <<>>
    /\ outcome = "none"
    /\ media = [v \in Videos |-> "ok"]
    /\ NoMerge
    /\ \E n \in 0..MaxResults :
           \/ /\ builder = "video_analyzer"
              /\ db \in Stores
              /\ \E c \in [1..n -> AnalyzerChoices] :
                     graph_results = [i \in 1..n |->
                         AnalyzerResult(videoStart, c[i][1], c[i][2], c[i][3])]
           \/ /\ builder = "graph_builder"
              /\ db = [suspect |-> TRUE, videos |-> Videos]
              /\ \E c \in [1..n -> LegacyChoices] :
                     graph_results = [i \in 1..n |->
                         LegacyResult(videoStart, c[i][1], c[i][2], 0, c[i][3])]
    /\ graph = EmptyGraph
    /\ firstGraph = EmptyGraph
    /\ NoSim
    /\ NoRun
    /\ NoAnalysis

Build ==
    /\ pc \in {"results", "built"}
    /\ builder = "video_analyzer"
    /\ graph' = BuildKnowledgeGraph(graph_results, db)
    /\ firstGraph' = IF pc = "built" THEN graph ELSE firstGraph
    /\ pc' = IF pc = "results" THEN "built" ELSE "rebuilt"
    /\ UNCHANGED <<trackVars, mergeVars, builder, db, graph_results, simVars, runVars, analyzeVars>>

LegacyBuild(draws) ==
    /\ pc \in {"results", "built"}
    /\ builder = "graph_builder"
    /\ graph' = LegacyBuildKnowledgeGraph(graph_results, draws)
    /\ firstGraph' = IF pc = "built" THEN graph ELSE firstGraph
    /\ pc' = IF pc = "results" THEN "built" ELSE "rebuilt"
    /\ UNCHANGED <<trackVars, mergeVars, builder, db, graph_results, simVars, runVars, analyzeVars>>

NextGraph ==
    \/ Build
    \/ \E draws \in DrawLists(graph_results) : LegacyBuild(draws)

SpecGraph == InitGraph /\ [][NextGraph]_vars

(***************************************************************************)
(* generate_timeline of timeline_generator.  The file of a video is "ok",  *)
(* "missing" (os.path.exists is false) or "unreadable" (extract_frame      *)
(* raises ValueError, which the handler of the loop body logs).            *)
(***************************************************************************)
MediaStates == {"ok", "missing", "unreadable"}

\* the events of the first n results, in the order of the results
RECURSIVE TimelineEvents(_, _, _)
TimelineEvents(rs, files, n) ==
    IF n = 0 THEN <<>>
    ELSE LET before == TimelineEvents(rs, files, n - 1)
         IN  IF files[rs[n].videoId] = "missing" THEN before          \* continue
             ELSE IF files[rs[n].videoId] = "unreadable" THEN before  \* except
             ELSE Append(before, TimelineEvent(rs[n]))

GenerateTimeline(rs, files) == SortByTimestamp(TimelineEvents(rs, files, Len(rs)))

InitTimeline ==
    /\ pc = "tracked"
    /\ videoStart \in MergeStarts
    /\ frames = [v \in Videos |-> <<>>]
    /\ call = NoCall
    /\ outcome = "returned"
    /\ media \in [Videos -> MediaStates]
    /\ \E n \in 0..MaxResults : \E c \in [1..n -> EventChoices] :
           tracking_results =
               [i \in 1..n |-> LegacyResult(videoStart, c[i][1], c[i][2], i, c[i][3])]
    /\ NoMerge
    /\ NoGraph
    /\ NoSim
    /\ NoRun
    /\ NoAnalysis

GenerateTimelineStep ==
    /\ pc = "tracked"
    /\ timeline' = GenerateTimeline(tracking_results, media)
    /\ pc' = "timeline"
    /\ UNCHANGED <<trackVars, given, max_gap, merged, heads, owner, remerged,
                   graphVars, simVars, runVars, analyzeVars>>

NextTimeline == GenerateTimelineStep

SpecTimeline == InitTimeline /\ [][NextTimeline]_vars

(***************************************************************************)
(* The track-suspect request and its background run (analyze_suspect and   *)
(* run_analysis of main.py).  The record is the document of the run in the *)
(* analyses collection; the connector swallows every database error, so a  *)
(* failed insert or update leaves the collection as it was.                *)
(***************************************************************************)
InProgress == "Analysis in progress..."

\* max_gap_seconds of merge_nearby_events when the caller gives none
DefaultMaxGap == 60

InitialRecord ==
    [stored |-> TRUE, summary |-> InProgress, status |-> "none", timeline |-> <<>>]

\* update_one_async: $set of the fields on the stored document; FALSE and no
\* change when the database raises or no document matches
UpdateOne(rec, fields, db_ok) ==
    IF db_ok /\ rec.stored
    THEN [k \in DOMAIN rec |-> IF k \in DOMAIN fields THEN fields[k] ELSE rec[k]]
    ELSE rec

Requests == { [suspectId |-> s, videoIds |-> vs] :
                 s \in {"none", "s1"}, vs \in VideoLists \cup {<<>>} }

\* what can go wrong inside a run: nothing, the database is unreachable,
\* process_video/analyze_frames raises, track_suspect raises,
\* generate_summary raises
RunFaults == {"none", "database", "processing", "tracking", "summary"}

\* the first element of ids that is in bad, as a sequence of zero or one
FirstOf(ids, bad) ==
    LET hits == {i \in 1..Len(ids) : ids[i] \in bad}
    IN  IF hits = {} THEN <<>>
        ELSE << ids[CHOOSE i \in hits : (\A j \in hits : i <= j)] >>

\* run_analysis: the record when the task ends
RunAnalysis(rec, req, store, files, fault, rs) ==
    LET db_ok == fault # "database"
        unknown == FirstOf(req.videoIds, Videos \ store.videos)
        nofile == FirstOf(req.videoIds, {v \in Videos : files[v] = "missing"})
        withEnv == UpdateOne(rec, [status |-> "environment_processed"], db_ok)
    IN  IF ~db_ok \/ ~store.suspect
        THEN UpdateOne(rec, [summary |-> "Error: Suspect not found"], db_ok)
        ELSE IF unknown # <<>>
        THEN UpdateOne(rec, [summary |-> "Error: Video not found"], db_ok)
        ELSE IF nofile # <<>> /\ (fault # "processing" \/ nofile[1] = req.videoIds[1])
        THEN UpdateOne(withEnv, [summary |-> "Error: Video file not found"], db_ok)
        ELSE IF fault = "processing"
        THEN UpdateOne(withEnv, [summary |-> "Error processing video"], db_ok)
        ELSE IF fault \in {"tracking", "summary"}
        THEN UpdateOne(withEnv, [summary |-> "Error during analysis processing"], db_ok)
        ELSE UpdateOne(withEnv, [timeline |-> GenerateTimeline(rs, files),
                                 summary |-> "summary"], db_ok)

\* whether the run gets as far as the call of track_suspect
ReachesTracking(req, store, files, fault) ==
    /\ fault \in {"none", "tracking", "summary"}
    /\ store.suspect
    /\ \A i \in 1..Len(req.videoIds) :
          req.videoIds[i] \in store.videos /\ files[req.videoIds[i]] # "missing"

\* the lists track_suspect can return for the videos of the request
ResultLists(start, ids) ==
    UNION { { [i \in 1..n |-> LegacyResult(start, c[i][1], c[i][2], i, c[i][3])] :
                c \in [1..n -> {e \in EventChoices : e[1] \in {ids[k] : k \in 1..Len(ids)}}] } :
            n \in 0..MaxResults }

InitRun ==
    /\ pc = "request"
    /\ videoStart = [v \in Videos |-> Ts(0, 0)]
    /\ frames = [v \in Videos |-> <<>>]
    /\ call = NoCall
    /\ tracking_results = <<>>
    /\ outcome = "none"
    /\ media \in [Videos -> MediaStates]
    /\ NoMerge
    /\ builder = "none"
    /\ db \in Stores
    /\ graph_results = <<>>
    /\ graph = EmptyGraph
    /\ firstGraph = EmptyGraph
    /\ NoSim
    /\ request \in Requests
    /\ record = NoRecord
    /\ task = "none"
    /\ NoAnalysis

\* analyze_suspect: validates the request, inserts the initial record and
\* adds the background task; a failure of either is logged and ignored
AnalyzeSuspect(insert_ok, add_ok) ==
    /\ pc = "request"
    /\ IF request.suspectId = "none" \/ request.videoIds = <<>>
       THEN /\ pc' = "rejected"
            /\ UNCHANGED <<record, task>>
       ELSE /\ pc' = "accepted"
            /\ record' = IF insert_ok THEN InitialRecord ELSE NoRecord
            /\ task' = IF add_ok THEN "queued" ELSE "not added"
    /\ UNCHANGED <<trackVars, mergeVars, graphVars, simVars, request, analyzeVars>>

\* what track_suspect hands back to the run: a list of results when the run
\* gets as far as the call and the call returns, nothing otherwise
TrackingOutcomes(fault) ==
    IF ReachesTracking(request, db, media, fault) /\ fault # "tracking"
    THEN ResultLists(videoStart, request.videoIds)
    ELSE {<<>>}

RunAnalysisStep(fault, rs) ==
    /\ task = "queued"
    /\ record' = RunAnalysis(record, request, db, media, fault, rs)
    /\ tracking_results' = rs
    /\ task' = "finished"
    /\ UNCHANGED <<pc, videoStart, frames, call, outcome, media, mergeVars, graphVars,
                   simVars, request, analyzeVars>>

RunAnalysisSteps ==
    /\ task = "queued"
    /\ \E fault \in RunFaults : \E rs \in TrackingOutcomes(fault) : RunAnalysisStep(fault, rs)

NextRun ==
    \/ \E insert_ok \in BOOLEAN, add_ok \in BOOLEAN : AnalyzeSuspect(insert_ok, add_ok)
    \/ RunAnalysisSteps

SpecRun == InitRun /\ [][NextRun]_vars

\* the request handler returns, and a background task that was added is run
\* by the server after the response is sent
FairRun ==
    /\ WF_vars(\E insert_ok \in BOOLEAN, add_ok \in BOOLEAN : AnalyzeSuspect(insert_ok, add_ok))
    /\ WF_vars(RunAnalysisSteps)

SpecRunFair == SpecRun /\ FairRun

(***************************************************************************)
(* VideoAnalyzer.analyze_frames.  The unprocessed frames of the video are  *)
(* taken in batches; the detection tasks of a batch are created together   *)
(* and complete in any order; asyncio.gather hands their results back in   *)
(* the order of the tasks.  A reply of the detector is the list of persons *)
(* it saw, or a JSON object without the key "persons".                     *)
(***************************************************************************)
NoPersonsKey == "no persons key"

Replies == { NoPersonsKey, <<>>, <<"man">>, <<"man", "woman">> }

\* the frames documents of the video: frame k was taken k seconds in
FrameDocs(replies, flags) ==
    [k \in 1..Len(replies) |->
        [ frame_id         |-> k,
          timestamp        |-> k - 1,
          processed        |-> flags[k],
          persons_detected |-> 0,
          reply            |-> replies[k] ]]

\* find_many_async("frames", {"video_id": ..., "processed": False})
Unprocessed(docs) ==
    SelectSeq([k \in 1..Len(docs) |-> k], LAMBDA k : ~docs[k].processed)

NotStarted == "not started"

Pending == "pending"

\* the results of the batch in the order in which its tasks completed
BatchResults_CompletionOrder(ts, done, lo, hi) ==
    LET mine == SelectSeq(done, LAMBDA k : lo <= k /\ k <= hi)
    IN  [n \in 1..(hi - lo + 1) |-> ts[mine[n]].result]

\* results = await asyncio.gather(*tasks): in the order of the tasks
BatchResults(ts, done, lo, hi) ==
    [n \in 1..(hi - lo + 1) |-> ts[lo + n - 1].result]

PersonData(doc, person) ==
    [frame_id |-> doc.frame_id, timestamp |-> doc.timestamp, description |-> person]

\* the loop over zip(batch, results), from pair n on: st is
\* [docs, stored, processed, detected]
RECURSIVE StoreResults(_, _, _, _, _)
StoreResults(st, ts, results, lo, n) ==
    IF n > Len(results) THEN st
    ELSE LET k == ts[lo + n - 1].frame
             result == results[n]
         IN  IF result = NoPersonsKey
             THEN StoreResults(st, ts, results, lo, n + 1)
             ELSE StoreResults(
                      [ docs      |-> [st.docs EXCEPT ![k] =
                                          [@ EXCEPT !.processed = TRUE,
                                                    !.persons_detected = Len(result)]],
                        stored    |-> st.stored \o
                                      [j \in 1..Len(result) |->
                                          PersonData(st.docs[k], result[j])],
                        processed |-> st.processed + 1,
                        detected  |-> st.detected + Len(result) ],
                      ts, results, lo, n + 1)

BatchEnd == IF batch_start + AnalyzeBatch - 1 < Len(tasks)
            THEN batch_start + AnalyzeBatch - 1 ELSE Len(tasks)

InitAnalyze ==
    /\ pc = "frames"
    /\ videoStart = [v \in Videos |-> Ts(0, 0)]
    /\ frames = [v \in Videos |-> <<>>]
    /\ call = NoCall
    /\ tracking_results = <<>>
    /\ outcome = "none"
    /\ media = [v \in Videos |-> "ok"]
    /\ NoMerge
    /\ NoGraph
    /\ NoSim
    /\ NoRun
    /\ \E n \in 0..MaxFrames :
          \E replies \in [1..n -> Replies], flags \in [1..n -> BOOLEAN] :
              frame_docs = FrameDocs(replies, flags)
    /\ batch_start = 0
    /\ tasks = <<>>
    /\ finished = <<>>
    /\ person_docs = <<>>
    /\ report = NoReport

\* the call reads the unprocessed frames; with none it returns at once
AnalyzeFrames ==
    /\ pc = "frames"
    /\ LET todo == Unprocessed(frame_docs)
       IN  IF todo = <<>>
           THEN /\ report' = [NoReport EXCEPT !.returned = TRUE]
                /\ pc' = "returned"
                /\ UNCHANGED <<tasks, batch_start>>
           ELSE /\ tasks' = [n \in 1..Len(todo) |-> [frame |-> todo[n], result |-> NotStarted]]
                /\ batch_start' = 1
                /\ pc' = "batch"
                /\ UNCHANGED report
    /\ UNCHANGED <<trackVars, mergeVars, graphVars, simVars, runVars,
                   frame_docs, finished, person_docs>>

\* asyncio.create_task for every frame of the batch
CreateTasks ==
    /\ pc = "batch"
    /\ tasks' = [n \in 1..Len(tasks) |->
                    IF batch_start <= n /\ n <= BatchEnd
                    THEN [tasks[n] EXCEPT !.result = Pending] ELSE tasks[n]]
    /\ pc' = "gather"
    /\ UNCHANGED <<trackVars, mergeVars, graphVars, simVars, runVars,
                   frame_docs, batch_start, finished, person_docs, report>>

\* one detection task of the batch completes with the reply for its frame
CompleteTask(n) ==
    /\ pc = "gather"
    /\ tasks[n].result = Pending
    /\ tasks' = [tasks EXCEPT ![n].result = frame_docs[tasks[n].frame].reply]
    /\ finished' = Append(finished, n)
    /\ UNCHANGED <<pc, trackVars, mergeVars, graphVars, simVars, runVars,
                   frame_docs, batch_start, person_docs, report>>

\* gather returns when every task of the batch is done; the results are
\* stored and the next batch starts, or the call returns the totals
StoreBatch ==
    /\ pc = "gather"
    /\ \A n \in batch_start..BatchEnd : tasks[n].result # Pending
    /\ LET results == BatchResults(tasks, finished, batch_start, BatchEnd)
           st == StoreResults([ docs      |-> frame_docs,
                                stored    |-> person_docs,
                                processed |-> report.frames_analyzed,
                                detected  |-> report.persons_detected ],
                              tasks, results, batch_start, 1)
           last == BatchEnd = Len(tasks)
       IN  /\ frame_docs' = st.docs
           /\ person_docs' = st.stored
           /\ report' = [ returned         |-> last,
                          frames_analyzed  |-> st.processed,
                          persons_detected |-> st.detected ]
           /\ pc' = IF last THEN "returned" ELSE "batch"
           /\ batch_start' = IF last THEN batch_start ELSE batch_start + AnalyzeBatch
    /\ UNCHANGED <<trackVars, mergeVars, graphVars, simVars, runVars, tasks, finished>>

NextAnalyze ==
    \/ AnalyzeFrames
    \/ CreateTasks
    \/ \E n \in 1..Len(tasks) : CompleteTask(n)
    \/ StoreBatch

SpecAnalyze == InitAnalyze /\ [][NextAnalyze]_vars

(***************************************************************************)
(* Specification of the similarity functions: two feature vectors are      *)
(* drawn and _calculate_similarity is applied to them, in both orders and  *)
(* to the first with itself; compare_embeddings is applied when both are   *)
(* embeddings as compute_embedding makes them.                             *)
(***************************************************************************)
Components == {-3, 0, 3, 4, 5}

FeatureVectors == UNION {[1..n -> Components] : n \in 0..MaxDim}

InitSim ==
    /\ pc = "vectors"
    /\ videoStart = [v \in Videos |-> Ts(0, 0)]
    /\ frames = [v \in Videos |-> <<>>]
    /\ call = NoCall
    /\ tracking_results = <<>>
    /\ outcome = "none"
    /\ media = [v \in Videos |-> "ok"]
    /\ NoMerge
    /\ NoGraph
    /\ features1 \in FeatureVectors
    /\ features2 \in FeatureVectors
    /\ similarity = NoSimilarity
    /\ NoRun
    /\ NoAnalysis

Similarity ==
    /\ pc = "vectors"
    /\ similarity' = [ direct  |-> CalculateSimilarity(features1, features2),
                       swapped |-> CalculateSimilarity(features2, features1),
                       self    |-> CalculateSimilarity(features1, features1) ]
    /\ pc' = "compared"
    /\ UNCHANGED <<trackVars, mergeVars, graphVars, features1, features2, runVars, analyzeVars>>

CompareEmbeddingsStep ==
    /\ pc = "vectors"
    /\ IsEmbedding(features1)
    /\ IsEmbedding(features2)
    /\ Len(features1) = Len(features2)
    /\ similarity' = [ direct  |-> CompareEmbeddings(features1, features2),
                       swapped |-> CompareEmbeddings(features2, features1),
                       self    |-> CompareEmbeddings(features1, features1) ]
    /\ pc' = "embeddings compared"
    /\ UNCHANGED <<trackVars, mergeVars, graphVars, features1, features2, runVars, analyzeVars>>

NextSim == Similarity \/ CompareEmbeddingsStep

SpecSim == InitSim /\ [][NextSim]_vars

(***************************************************************************)
(* The functions that work on the output of tracking, together: a run      *)
(* either merges a timeline or builds a graph.                             *)
(***************************************************************************)
InitOutputs == InitMerge \/ InitGraph

NextOutputs == NextMerge \/ NextGraph

SpecOutputs == InitOutputs /\ [][NextOutputs]_vars

(***************************************************************************)
(* Claims about track_suspect.                                             *)
(***************************************************************************)
Range(s) == {s[i] : i \in 1..Len(s)}

\* the (video, frame, person) triples of the frame store
StoredPersons ==
    {<<v, i, k>> \in Videos \X (1..MaxFrames) \X (1..2) :
        i <= Len(frames[v]) /\ k <= Len(frames[v][i])}

PersonOf(t) == frames[t[1]][t[2]][t[3]]

StampOf(t) == FrameTimestamp(videoStart, t[1], t[2] - 1)

ConfidenceOf(t) == CalculateSimilarity(SuspectFeatures, PersonOf(t).features)

\* the frame lies in the timeframe of the call, bounds included
WithinCallTimeframe(ts) ==
    LET tf == call.timeframe
    IN  /\ (tf.start # <<>> => Instant(tf.start[1]) <= Instant(ts))
        /\ (tf.end # <<>> => Instant(ts) <= Instant(tf.end[1]))

\* the persons the call has to report: stored with features in a frame of a
\* supplied video inside the timeframe, at or above the threshold
Qualifying ==
    {t \in StoredPersons :
        /\ t[1] \in Range(call.videos)
        /\ WithinCallTimeframe(StampOf(t))
        /\ PersonOf(t).features # <<>>
        /\ ConfidenceOf(t) >= call.threshold}

ResultsFor(t) ==
    {n \in 1..Len(tracking_results) :
        /\ tracking_results[n].frameId = <<t[1], t[2] - 1>>
        /\ tracking_results[n].boundingBox = PersonOf(t).boundingBox}

\* C1: every result returned by track_suspect(suspect, videos, timeframe, T)
\* has confidence >= T
C1_ConfidenceAtLeastThreshold ==
    call.made =>
        \A n \in 1..Len(tracking_results) :
            tracking_results[n].confidence >= call.threshold

\* a call that returned results and discarded a person scoring below T
C1_Witness ==
    /\ call.made
    /\ tracking_results # <<>>
    /\ \E t \in StoredPersons :
           /\ t[1] \in Range(call.videos)
           /\ WithinCallTimeframe(StampOf(t))
           /\ PersonOf(t).features # <<>>
           /\ ConfidenceOf(t) < call.threshold
           /\ ConfidenceOf(t) >= 70

\* C2: exactly one result per (frame, person) pair whose person has
\* features and whose confidence is >= the threshold, carrying that
\* confidence, and no result for any other pair
C2_OneResultPerMatchingPerson ==
    (call.made /\ call.imageExists) =>
      LET qualifying == Qualifying IN
        /\ \A t \in qualifying : Cardinality(ResultsFor(t)) = 1
        /\ \A n \in 1..Len(tracking_results) :
               \E t \in qualifying :
                   /\ n \in ResultsFor(t)
                   /\ tracking_results[n].confidence = ConfidenceOf(t)
                   /\ tracking_results[n].videoId = t[1]
        /\ Len(tracking_results) = Cardinality(qualifying)

\* two persons of one frame both reported, a match in each video, and a
\* person that is not reported
C2_Witness ==
    /\ call.made
    /\ \E m, n \in 1..Len(tracking_results) :
           /\ m # n
           /\ tracking_results[m].frameId = tracking_results[n].frameId
    /\ \E m, n \in 1..Len(tracking_results) :
           tracking_results[m].videoId # tracking_results[n].videoId
    /\ \E t \in StoredPersons : t[1] \in Range(call.videos) /\ t \notin Qualifying

\* C3: with a timeframe [start, end], every result has
\* start <= timestamp <= end
C3_ResultsWithinTimeframe ==
    call.made =>
        \A n \in 1..Len(tracking_results) :
            LET tf == call.timeframe
                ts == tracking_results[n].timestamp
            IN  /\ (tf.start # <<>> => Instant(tf.start[1]) <= Instant(ts))
                /\ (tf.end # <<>> => Instant(ts) <= Instant(tf.end[1]))

\* a call with both bounds that reports a result stamped exactly at the end
\* of the range and leaves out a matching person of a later frame
C3_Witness ==
    /\ call.made
    /\ call.timeframe.start # <<>>
    /\ call.timeframe.end # <<>>
    /\ \E n \in 1..Len(tracking_results) :
           Instant(tracking_results[n].timestamp) = Instant(call.timeframe.end[1])
    /\ \E t \in StoredPersons :
           /\ t[1] \in Range(call.videos)
           /\ PersonOf(t).features # <<>>
           /\ ConfidenceOf(t) >= call.threshold
           /\ Instant(StampOf(t)) > Instant(call.timeframe.end[1])

\* C4: the returned list is in non-decreasing timestamp order (the instants
\* the timestamps denote never decrease along the list)
C4_ChronologicalOrder ==
    call.made =>
        \A m, n \in 1..Len(tracking_results) :
            m < n => Instant(tracking_results[m].timestamp)
                         <= Instant(tracking_results[n].timestamp)

\* what the sort of the frames does give: the timestamp strings never
\* decrease along the list
C4_StringOrder ==
    call.made =>
        \A m, n \in 1..Len(tracking_results) :
            m < n => ~StrLess(tracking_results[n].timestamp,
                              tracking_results[m].timestamp)

(***************************************************************************)
(* Claims about merge_nearby_events.                                       *)
(***************************************************************************)
\* the inputs that went into the n-th returned event
Members(n) == {i \in 1..Len(given) : owner[i] = heads[n]}

\* the member of returned event n that comes last in the sorted order
LastMember(n, order) ==
    LET RankOf(i) == CHOOSE r \in 1..Len(order) : order[r] = i
    IN  CHOOSE i \in Members(n) : \A k \in Members(n) : RankOf(k) <= RankOf(i)

MaxOf(S) == CHOOSE x \in S : \A y \in S : y <= x

Abs(x) == IF x < 0 THEN -x ELSE x

\* the first call has returned and its bookkeeping is in merged, heads, owner
MergeDone == pc = "merged"

\* C5: no returned event combines events of two different videoIds
C5_NoMergeAcrossVideos ==
    MergeDone =>
        /\ \A i \in 1..Len(given) :
               /\ owner[i] \in 1..Len(given)
               /\ given[i].videoId = given[owner[i]].videoId
        /\ \A n \in 1..Len(merged) :
               \A i \in Members(n) : given[i].videoId = merged[n].videoId

\* events of two videos closer than the gap, next to each other in the pass,
\* and still a merge of two events of one video
C5_Witness ==
    /\ pc = "merged"
    /\ Len(merged) < Len(given)
    /\ \E r \in 1..(Len(given) - 1) :
           LET a == given[SortedIndices(given)[r]]
               b == given[SortedIndices(given)[r + 1]]
           IN  /\ a.videoId # b.videoId
               /\ Abs(TimeDiff(b, a)) <= max_gap

\* C6: in the pass over the sorted events, an event goes into the open event
\* iff it has the same videoId and its timestamp is within max_gap_seconds
\* of the open event's; otherwise it opens a new event.  Two events of one
\* video 20 s apart give 1 event at gap 60, 90 s apart give 2
C6_MergeIffSameVideoWithinGap ==
    MergeDone =>
      LET order == SortedIndices(given) IN
        /\ Len(given) > 0 => owner[order[1]] = order[1]
        /\ \A r \in 2..Len(given) :
               LET i == order[r]
                   open == owner[order[r - 1]]
                   near == /\ given[i].videoId = given[open].videoId
                           /\ Abs(TimeDiff(given[i], given[open])) <= max_gap
               IN  /\ near => owner[i] = open
                   /\ ~near => owner[i] = i
        /\ Len(merged) = Cardinality({i \in 1..Len(given) : owner[i] = i})
        /\ (/\ Len(given) = 2
            /\ given[1].videoId = given[2].videoId
            /\ max_gap = 60)
           => /\ Abs(TimeDiff(given[2], given[1])) = 20 => Len(merged) = 1
              /\ Abs(TimeDiff(given[2], given[1])) = 90 => Len(merged) = 2

\* three events of one video: the second is merged at exactly the gap, the
\* third is farther than the gap from the open event and opens a new one
C6_Witness ==
    /\ pc = "merged"
    /\ Len(given) = 3
    /\ Len(merged) = 2
    /\ \A i \in 1..3 : given[i].videoId = "camA"
    /\ \E i, k \in 1..3 : Abs(TimeDiff(given[i], given[k])) = max_gap /\ owner[i] = k /\ i # k

\* C7: a returned event has the endTime of the last event merged into it,
\* the largest confidence of all events merged into it, and one appended
\* time-stamped clause per merged-in event
C7_MergedFields ==
    MergeDone =>
      LET order == SortedIndices(given) IN
        \A n \in 1..Len(merged) :
            LET later == SelectSeq(order, LAMBDA i : i \in Members(n) /\ i # heads[n])
            IN  /\ merged[n].endTime = given[LastMember(n, order)].endTime
                /\ merged[n].confidence = MaxOf({given[i].confidence : i \in Members(n)})
                /\ Len(merged[n].description) = Cardinality(Members(n))
                /\ merged[n].description[1] = given[heads[n]].description[1]
                /\ \A m \in 1..Len(later) :
                       merged[n].description[m + 1] =
                           <<"and again at", ClockOf(given[later[m]].timestamp)>>

\* an event made of three, whose largest confidence is not the first one's
C7_Witness ==
    /\ pc = "merged"
    /\ \E n \in 1..Len(merged) :
           /\ Cardinality(Members(n)) = 3
           /\ merged[n].confidence > given[heads[n]].confidence
           /\ merged[n].endTime > given[heads[n]].endTime

\* C8: merge(merge(x)) = merge(x): the second call merges nothing and
\* changes no field of any event
C8_MergeIdempotent ==
    pc = "remerged" =>
        /\ remerged = merged
        /\ \A n \in 1..Len(heads) : timeline[heads[n]] = merged[n]

\* a second call on a list of two or more events, one of them merged from
\* several
C8_Witness ==
    /\ pc = "remerged"
    /\ Len(merged) >= 2
    /\ Len(merged) < Len(given)

(***************************************************************************)
(* Claims about build_knowledge_graph.                                     *)
(***************************************************************************)
BuildDone == pc \in {"built", "rebuilt"}

\* C9: for an empty list of tracking results both build_knowledge_graph
\* functions return a graph with no nodes and no edges, and for an empty
\* list of events merge_nearby_events returns the empty list
C9_EmptyInEmptyOut ==
    /\ (BuildDone /\ graph_results = <<>>) =>
           /\ graph.nodes = <<>>
           /\ graph.edges = <<>>
    /\ (pc \in {"merged", "remerged"} /\ given = <<>>) =>
           /\ merged = <<>>
           /\ timeline = <<>>
    /\ (pc = "remerged" /\ given = <<>>) => remerged = <<>>

\* the graph was built from no results by the function that looks the
\* suspect up, with the suspect on record
C9_Witness ==
    /\ pc = "built"
    /\ builder = "video_analyzer"
    /\ graph_results = <<>>
    /\ db.suspect

\* C10: two calls of build_knowledge_graph on the same list return the same
\* number of nodes and of edges and the same sets of node and edge ids
C10_BuildDeterministic ==
    pc = "rebuilt" =>
        /\ Len(graph.nodes) = Len(firstGraph.nodes)
        /\ Len(graph.edges) = Len(firstGraph.edges)
        /\ NodeIds(graph) = NodeIds(firstGraph)
        /\ EdgeIds(graph) = EdgeIds(firstGraph)

NodesOfType(g, type) == {n \in 1..Len(g.nodes) : g.nodes[n].type = type}

EdgesLabelled(g, label) == {n \in 1..Len(g.edges) : g.edges[n].label = label}

ResultVideos == {graph_results[i].videoId : i \in 1..Len(graph_results)}

UniqueIds(g) ==
    /\ Cardinality(NodeIds(g)) = Len(g.nodes)
    /\ Cardinality(EdgeIds(g)) = Len(g.edges)

LocationNodesOf(g, v) ==
    {n \in NodesOfType(g, "location") : g.nodes[n].id = LocationId(v)}

\* C11 as stated: no two nodes share an id, no two edges share an id, and
\* there is exactly one location node per distinct videoId among the results
C11_UniqueIdsOneLocationPerVideo ==
    BuildDone =>
        /\ UniqueIds(graph)
        /\ \A v \in ResultVideos : Cardinality(LocationNodesOf(graph, v)) = 1
        /\ Cardinality(NodesOfType(graph, "location")) = Cardinality(ResultVideos)

\* C11 amended: no two nodes share an id, no two edges share an id, and
\* there is exactly one location node per distinct videoId among the results
\* whose video document the builder finds, and none for any other video
C11_UniqueIdsOneLocationPerFoundVideo ==
    BuildDone =>
        /\ UniqueIds(graph)
        /\ \A v \in ResultVideos :
               Cardinality(LocationNodesOf(graph, v)) = IF v \in db.videos THEN 1 ELSE 0
        /\ Cardinality(NodesOfType(graph, "location"))
               = Cardinality(ResultVideos \cap db.videos)

\* two results of one video at different timestamps, one location node
C11_Witness ==
    /\ pc = "built"
    /\ Len(graph_results) = 2
    /\ graph_results[1].videoId = graph_results[2].videoId
    /\ graph_results[1].timestamp # graph_results[2].timestamp
    /\ Cardinality(NodesOfType(graph, "location")) = 1
    /\ Len(graph.edges) >= 2

\* the visited edges of g from suspect sid to the location of video v at ts
VisitsOf(g, sid, v, ts) ==
    {n \in EdgesLabelled(g, "visited") :
        /\ g.edges[n].source = sid
        /\ g.edges[n].target = LocationId(v)
        /\ g.edges[n].timestamp = ts}

\* the (videoId, timestamp) pairs of the results whose video is in videos
VisitKeys(videos) ==
    {<<graph_results[i].videoId, graph_results[i].timestamp>> :
        i \in {k \in 1..Len(graph_results) : graph_results[k].videoId \in videos}}

\* C12 as stated: exactly one visited edge from the suspect to the video's
\* location for every distinct (suspectId, locationId, timestamp) among the
\* results, and no other visited edge
C12_OneVisitPerKey ==
    (BuildDone /\ graph_results # <<>>) =>
        LET sid == graph_results[1].suspectId IN
        /\ \A key \in VisitKeys(Videos) :
               Cardinality(VisitsOf(graph, sid, key[1], key[2])) = 1
        /\ Cardinality(EdgesLabelled(graph, "visited")) = Cardinality(VisitKeys(Videos))

\* C12 amended: exactly one visited edge for every distinct (suspectId,
\* locationId, timestamp) among the results whose video document build
\* finds, and no other visited edge
C12_OneVisitPerFoundKey ==
    (BuildDone /\ graph_results # <<>>) =>
        LET sid == graph_results[1].suspectId IN
        /\ \A key \in VisitKeys(db.videos) :
               Cardinality(VisitsOf(graph, sid, key[1], key[2])) = 1
        /\ Cardinality(EdgesLabelled(graph, "visited")) = Cardinality(VisitKeys(db.videos))

\* two results with the same video and timestamp, one visited edge
C12_Witness ==
    /\ pc = "built"
    /\ Len(graph_results) = 2
    /\ graph_results[1].videoId = graph_results[2].videoId
    /\ graph_results[1].timestamp = graph_results[2].timestamp
    /\ Cardinality(EdgesLabelled(graph, "visited")) = 1

\* an item name with its letters lower-cased and its spaces taken out
NormalName(item) ==
    LET lowered == [i \in 1..Len(item) |-> LowerOf(item[i])]
    IN  SelectSeq(lowered, LAMBDA c : c # " ")

\* the items carried in the results whose video document is found
CarriedItems ==
    UNION { Range(graph_results[i].carrying) :
                i \in {k \in 1..Len(graph_results) : graph_results[k].videoId \in db.videos} }

\* C13: item names that differ only in letter case or whitespace map to the
\* same object node, and there is exactly one carried edge per (suspect,
\* object) however many results list the item
C13_ObjectsKeyedByNormalName ==
    (BuildDone /\ builder = "video_analyzer") =>
        /\ Cardinality(NodesOfType(graph, "object"))
               = Cardinality({NormalName(item) : item \in CarriedItems})
        /\ Cardinality(EdgesLabelled(graph, "carried"))
               = Cardinality(NodesOfType(graph, "object"))

\* C14: for a non-empty list the graph has exactly one node of type
\* suspect, its id is the suspectId of the first result, and every edge has
\* that node as its source
C14_OneSuspectNode ==
    (BuildDone /\ graph_results # <<>>) =>
        /\ Cardinality(NodesOfType(graph, "suspect")) = 1
        /\ \A n \in NodesOfType(graph, "suspect") :
               graph.nodes[n].id = graph_results[1].suspectId
        /\ \A e \in 1..Len(graph.edges) :
               /\ graph.edges[e].source = graph_results[1].suspectId
               /\ graph.edges[e].source \in NodeIds(graph)

(***************************************************************************)
(* Claims about the similarity functions.                                  *)
(***************************************************************************)
NormSq(v) == Dot(v, v)

\* equal-length vectors of non-zero norm
ValidPair(v, w) == Len(v) = Len(w) /\ NormSq(v) > 0 /\ NormSq(w) > 0

Compared == pc \in {"compared", "embeddings compared"}

C16_RejectsInvalidVectors ==
    (pc = "compared" /\ ~ValidPair(features1, features2)) =>
        similarity.direct = SimError

(***************************************************************************)
(* Claims about failures during tracking.                                  *)
(***************************************************************************)
\* matching a person of frame i of video v raises
FrameFails(v, i) ==
    \E k \in 1..Len(frames[v][i]) :
        /\ HasFeatures(frames[v][i][k])
        /\ Len(frames[v][i][k].features) # Len(SuspectFeatures)

\* C17: a failure while matching a person of one frame is no match in that
\* frame: the matching persons of every other frame are still returned
C17_FrameFailureIsolated ==
    (call.made /\ call.imageExists) =>
        \A t \in Qualifying :
            ~FrameFails(t[1], t[2]) => Cardinality(ResultsFor(t)) = 1

\* C19: track_suspect for a suspect whose reference image is missing ends
\* in an error, not in a returned list
C19_MissingImageRaises ==
    (call.made /\ ~call.imageExists) => outcome = "raised"

\* the videos of the call that have no frame stored
EmptyVideos == {v \in Range(call.videos) : frames[v] = <<>>}

\* C18: a supplied video without extracted frames is skipped: the call
\* returns every match of the remaining videos, as many results as matching
\* persons, and none of the skipped video
C18_EmptyVideoSkipped ==
    (call.made /\ call.imageExists /\ EmptyVideos # {}) =>
      LET qualifying == Qualifying IN
        /\ \A t \in qualifying : Cardinality(ResultsFor(t)) = 1
        /\ Len(tracking_results) = Cardinality(qualifying)
        /\ \A n \in 1..Len(tracking_results) :
               tracking_results[n].videoId \notin EmptyVideos

\* the video without frames comes first in the call and the second video
\* has a match
C18_Witness ==
    /\ call.made
    /\ Len(call.videos) = 2
    /\ frames[call.videos[1]] = <<>>
    /\ tracking_results # <<>>

(***************************************************************************)
(* Claims about generate_timeline.                                         *)
(***************************************************************************)
\* C20: when media extraction fails for an event the event stays in the
\* timeline: the timeline has one event per tracking result whatever the
\* state of the video files
C20_EventKeptWithoutMedia ==
    pc = "timeline" =>
        /\ Len(timeline) = Len(tracking_results)
        /\ \A i \in 1..Len(tracking_results) :
               \E n \in 1..Len(timeline) : timeline[n].id = tracking_results[i].id

(***************************************************************************)
(* Claims about the analysis run.                                          *)
(***************************************************************************)
RecordFinal == record.stored /\ record.summary # InProgress

\* C21: every analysis run the request starts eventually leaves a stored
\* record in a final state: the record exists and its summary is no longer
\* the initial 'Analysis in progress...'
C21_RunReachesFinalRecord == (pc = "accepted") ~> RecordFinal

(***************************************************************************)
(* Claims about batching and the annotation passes of track_suspect.       *)
(***************************************************************************)
CallFrames == AllFrames(frames, videoStart, call.videos, call.timeframe)

\* what the call returns when every frame goes through one pass
SinglePass(all_frames) ==
    AnalyzeBehaviorPatterns(
        DetectAppearanceChanges(
            VerifyIdentityConsistency(
                ProcessFramesBatch(all_frames, SuspectFeatures, call.threshold))))

\* C22: for a frame sequence longer than the batch ceiling, processing it in
\* sequential batches returns the same results in the same order as one
\* pass over the whole sequence, and the batches are consecutive slices of
\* whole frames: every frame, with all its detections, is in one batch
C22_BatchingChangesNothing ==
    (call.made /\ call.imageExists) =>
        LET all_frames == CallFrames
            bs == Batches(all_frames, BatchSize)
        IN  Len(all_frames) > BatchSize =>
                /\ tracking_results = SinglePass(all_frames)
                /\ Flatten(bs) = all_frames
                /\ \A b \in 1..Len(bs) : bs[b] # <<>> /\ Len(bs[b]) <= BatchSize

\* more frames than one batch holds, and a result that comes from a frame
\* of a later batch, which has two detections reported
C22_Witness ==
    /\ call.made
    /\ call.imageExists
    /\ LET all_frames == CallFrames
       IN  /\ Len(all_frames) > BatchSize
           /\ \E m, n \in 1..Len(tracking_results) :
                 /\ m # n
                 /\ tracking_results[m].frameId = tracking_results[n].frameId
                 /\ tracking_results[m].frameId = all_frames[Len(all_frames)].id
           /\ \E n \in 1..Len(tracking_results) :
                 tracking_results[n].frameId = all_frames[1].id

\* the results before the annotation passes
RawResults == ProcessAllFrames(CallFrames, SuspectFeatures, call.threshold)

RepeatedVisitsNote(loc) == <<"Repeated visits to", loc>>

\* C23: the annotation passes return the same results in the same order with
\* every field but behaviorNotes unchanged; a result gets the note
\* 'Repeated visits' appended exactly when its location occurs in more than
\* one result
C23_AnnotationOnlyAddsNotes ==
    (call.made /\ call.imageExists) =>
        LET raw == RawResults
        IN  /\ Len(tracking_results) = Len(raw)
            /\ \A n \in 1..Len(raw) :
                  LET r == tracking_results[n]
                      repeated == \E m \in 1..Len(raw) :
                                     m # n /\ raw[m].location = raw[n].location
                  IN  /\ [r EXCEPT !.behaviorNotes = <<>>] = raw[n]
                      /\ r.id = raw[n].id
                      /\ r.confidence = raw[n].confidence
                      /\ r.timestamp = raw[n].timestamp
                      /\ r.behaviorNotes =
                            IF repeated THEN <<RepeatedVisitsNote(raw[n].location)>>
                            ELSE <<>>

\* two results at one location, which carry the note, and a result at
\* another location, which does not
C23_Witness ==
    /\ call.made
    /\ \E m, n \in 1..Len(tracking_results) :
          /\ m # n
          /\ tracking_results[m].location = tracking_results[n].location
          /\ tracking_results[m].behaviorNotes # <<>>
    /\ \E n \in 1..Len(tracking_results) : tracking_results[n].behaviorNotes = <<>>

(***************************************************************************)
(* Further claims about merge_nearby_events.                               *)
(***************************************************************************)
\* C24: when every input event has startTime <= endTime, every returned
\* event has startTime <= endTime, and an event merged into an open event
\* never lowers that event's endTime: along the sorted order the endTimes of
\* the members of a returned event do not decrease
C24_EndTimeNeverDecreases ==
    (MergeDone /\ \A i \in 1..Len(given) : given[i].startTime <= given[i].endTime) =>
        LET order == SortedIndices(given)
        IN  /\ \A n \in 1..Len(merged) : merged[n].startTime <= merged[n].endTime
            /\ \A a, b \in 1..Len(order) :
                  (a < b /\ owner[order[a]] = owner[order[b]]) =>
                      given[order[a]].endTime <= given[order[b]].endTime

(***************************************************************************)
(* Further claims about build_knowledge_graph.                             *)
(***************************************************************************)
IsPrefix(s, t) == Len(s) <= Len(t) /\ SubSeq(t, 1, Len(s)) = s

\* position in graph_results of the first result of video v
FirstResultOf(v) ==
    CHOOSE i \in 1..Len(graph_results) :
        /\ graph_results[i].videoId = v
        /\ \A j \in 1..(i - 1) : graph_results[j].videoId # v

\* C25: nodes and edges are listed in first-insertion order and an entry,
\* once listed, is never changed by a later tracking result: the graph of
\* every prefix of the results is a prefix of the graph of the whole list,
\* and the location nodes stand in the order in which their videos first
\* occur in the results
C25_FirstSeenWins ==
    BuildDone =>
        /\ builder = "video_analyzer" =>
              \A k \in 1..Len(graph_results) :
                  LET part == BuildKnowledgeGraph(SubSeq(graph_results, 1, k), db)
                  IN  /\ IsPrefix(part.nodes, graph.nodes)
                      /\ IsPrefix(part.edges, graph.edges)
        /\ \A m, n \in NodesOfType(graph, "location") :
              m < n => \E v, w \in ResultVideos :
                          /\ graph.nodes[m].id = LocationId(v)
                          /\ graph.nodes[n].id = LocationId(w)
                          /\ FirstResultOf(v) < FirstResultOf(w)

\* two results of different videos at different times both carry the bag:
\* the one object node and the one carried edge keep the first timestamp
C25_Witness ==
    /\ pc = "built"
    /\ builder = "video_analyzer"
    /\ db.videos = Videos
    /\ Len(graph_results) = 2
    /\ graph_results[1].videoId # graph_results[2].videoId
    /\ graph_results[1].timestamp # graph_results[2].timestamp
    /\ graph_results[1].carrying = <<Bag>>
    /\ graph_results[2].carrying = <<Bag>>
    /\ \E n \in NodesOfType(graph, "object") :
          graph.nodes[n].timestamp = graph_results[1].timestamp
    /\ Cardinality(NodesOfType(graph, "object")) = 1
    /\ Cardinality(EdgesLabelled(graph, "carried")) = 1

(***************************************************************************)
(* Claims about the order of the frames track_suspect works through.       *)
(***************************************************************************)
Reverse(s) == [i \in 1..Len(s) |-> s[Len(s) + 1 - i]]

\* C26: frames of different videos with equal timestamps are ordered by
\* (videoId, frameIndex), so the call returns the same list, in the same
\* order, when the same videos are supplied in the opposite order
C26_VideoOrderIrrelevant ==
    (call.made /\ call.imageExists) =>
        /\ tracking_results =
              TrackSuspectResult(frames, videoStart, call.imageExists, SuspectFeatures,
                                 Reverse(call.videos), call.timeframe, call.threshold)
        /\ \A n \in 1..(Len(tracking_results) - 1) :
              LET r == tracking_results[n]
                  q == tracking_results[n + 1]
              IN  (r.timestamp = q.timestamp /\ r.videoId # q.videoId) =>
                      r.videoId = "camA"

C28_MergeLeavesInputUnchanged ==
    MergeDone =>
        /\ Len(timeline) = Len(given)
        /\ \A i \in 1..Len(given) :
              /\ timeline[i].endTime = given[i].endTime
              /\ timeline[i].confidence = given[i].confidence
              /\ timeline[i].description = given[i].description
        /\ Returned(MergeNearbyEvents(timeline, max_gap)) = merged

\* every input event went into exactly one returned event, of its own video
EveryEventKept ==
    /\ Len(merged) <= Len(given)
    /\ \A i \in 1..Len(given) :
          /\ Cardinality({n \in 1..Len(merged) : i \in Members(n)}) = 1
          /\ \A n \in 1..Len(merged) :
                i \in Members(n) => merged[n].videoId = given[i].videoId
    /\ \A n \in 1..Len(merged) : merged[n].id = given[heads[n]].id

\* C29: merge_nearby_events loses no event: the returned list is in
\* non-decreasing timestamp order, is no longer than the input, and every
\* input event is a returned event or was merged into exactly one returned
\* event of the same videoId
C29_MergeLosesNoEvent ==
    MergeDone =>
        /\ \A m, n \in 1..Len(merged) :
              m < n => Instant(merged[m].timestamp) <= Instant(merged[n].timestamp)
        /\ EveryEventKept

\* what the sort of the events does give: the timestamp strings never
\* decrease along the returned list, and no event is lost
C29_StringOrderNoEventLost ==
    MergeDone =>
        /\ \A m, n \in 1..Len(merged) :
              m < n => ~StrLess(merged[n].timestamp, merged[m].timestamp)
        /\ EveryEventKept

(***************************************************************************)
(* Claims about analyze_frames.                                            *)
(***************************************************************************)
\* the frames the call took from the store
Queued == {tasks[n].frame : n \in 1..Len(tasks)}

\* the frames for which the detector replied with a list of persons
Answered == {k \in Queued : frame_docs[k].reply # NoPersonsKey}

\* the persons stored for frame k, in the order they were inserted
StoredFor(k) ==
    LET mine == SelectSeq(person_docs, LAMBDA p : p.frame_id = k)
    IN  [j \in 1..Len(mine) |-> mine[j].description]

RECURSIVE PersonsIn(_)
PersonsIn(S) ==
    IF S = {} THEN 0
    ELSE LET k == CHOOSE x \in S : TRUE
         IN  Len(frame_docs[k].reply) + PersonsIn(S \ {k})

\* the persons of frame k are stored under frame k with its timestamp, and
\* the frame is marked processed with their number
FrameAccounted(k) ==
    /\ StoredFor(k) = frame_docs[k].reply
    /\ \A j \in 1..Len(person_docs) :
          person_docs[j].frame_id = k =>
              person_docs[j].timestamp = frame_docs[k].timestamp
    /\ frame_docs[k].processed
    /\ frame_docs[k].persons_detected = Len(frame_docs[k].reply)

====
